---- MODULE Spec2Model ----
(***************************************************************************)
(* PBKDF2 of PKCS#5 v2 as implemented by _gnutls_pkcs5_pbkdf2              *)
(* (lib/x509/pkcs5.c).  One call of the function is a state machine whose  *)
(* steps are the statements of the function; the keyed-hash context of     *)
(* libgcrypt is the environment: it may fail where the code tests for      *)
(* failure, and its digest is a deterministic function of the              *)
(* key and of the bytes written since the last reset.                      *)
(*                                                                         *)
(* unsigned int is 32 bits wide.  A 32-bit value is kept as the pair       *)
(* <<high half, low half>> of its 16-bit halves, so that values up to      *)
(* 2^32 - 1 and their wrap-around are computed exactly.                    *)
(***************************************************************************)
EXTENDS Integers, Sequences, FiniteSets, TLC

\* ------------------------------------------------------------------ bounds
\* iteration counts 0 .. MaxC and requested lengths 0 .. MaxDkLen (plus
\* multiples of 2^32, up to MaxWraps of them, in SpecWide)
MaxC == 3
MaxDkLen == 5
MaxWraps == 1
\* a run whose loop counter has wrapped is followed for MaxOverrun further
\* digests beyond 2^32
MaxOverrun == 3

\* ------------------------------------------------------ program constants
MAX_PRF_BLOCK_LEN == 80

PKCS5_OK == "PKCS5_OK"
PKCS5_INVALID_PRF == "PKCS5_INVALID_PRF"
PKCS5_INVALID_ITERATION_COUNT == "PKCS5_INVALID_ITERATION_COUNT"
PKCS5_INVALID_DERIVED_KEY_LENGTH == "PKCS5_INVALID_DERIVED_KEY_LENGTH"
PKCS5_DERIVED_KEY_TOO_LONG == "PKCS5_DERIVED_KEY_TOO_LONG"

\* --------------------------------------------- unsigned 32-bit arithmetic
B16 == 256 * 256

\* the pair of a natural number below 2^31
Mk(n) == <<n \div B16, n % B16>>

\* the number of a pair whose high half is below 2^15
Val(x) == x[1] * B16 + x[2]

\* carries of the low half moved into the high half (unbounded high half)
Norm(hi, lo) == <<hi + (lo \div B16), lo % B16>>

\* conversion of a wider value to unsigned int: reduction modulo 2^32
AsUInt(w) == <<w[1] % B16, w[2]>>

UINT_MAX == <<B16 - 1, B16 - 1>>
INT_MAX == <<(B16 \div 2) - 1, B16 - 1>>
INT_MIN == <<B16 \div 2, 0>>

Lt(a, b) == a[1] < b[1] \/ (a[1] = b[1] /\ a[2] < b[2])
LEq(a, b) == a = b \/ Lt(a, b)

\* a + b, a - b, a * h (h below 2^15) without reduction, then modulo 2^32
AddW(a, b) == Norm(a[1] + b[1], a[2] + b[2])
MulW(a, h) == Norm(a[1] * h, a[2] * h)
Add32(a, b) == AsUInt(AddW(a, b))
Sub32(a, b) == AsUInt(Norm(a[1] - b[1], a[2] - b[2]))
Mul32(a, h) == AsUInt(MulW(a, h))
Inc32(a) == Add32(a, Mk(1))

\* a / h and a % h for 1 <= h < 2^15, by long division on the halves
Div32(a, h) == <<a[1] \div h, (((a[1] % h) * B16) + a[2]) \div h>>
Mod32(a, h) == (((a[1] % h) * B16) + a[2]) % h

\* bitwise and, exclusive or of naturals
RECURSIVE BitAnd(_, _)
BitAnd(a, b) ==
    IF a = 0 \/ b = 0 THEN 0
    ELSE ((a % 2) * (b % 2)) + 2 * BitAnd(a \div 2, b \div 2)

RECURSIVE BitXor(_, _)
BitXor(a, b) ==
    IF a = 0 THEN b
    ELSE IF b = 0 THEN a
    ELSE ((a + b) % 2) + 2 * BitXor(a \div 2, b \div 2)

RECURSIVE Pow2(_)
Pow2(n) == IF n = 0 THEN 1 ELSE 2 * Pow2(n - 1)

And32(a, m) == <<BitAnd(a[1], m[1]), BitAnd(a[2], m[2])>>

\* a >> n for 0 <= n < 32
Shr32(a, n) ==
    IF n >= 16 THEN <<0, a[1] \div Pow2(n - 16)>>
    ELSE <<a[1] \div Pow2(n),
           ((a[1] % Pow2(n)) * Pow2(16 - n)) + (a[2] \div Pow2(n))>>

\* assignment of an unsigned value to a char: its low 8 bits
AsChar(a) == a[2] % 256

Max(a, b) == IF a >= b THEN a ELSE b

\* ---------------------------------------------------- the PRF (libgcrypt)
\* The digest algorithms the caller may name, by digest length: an unknown
\* algorithm (length 0), three short digests, one of the largest length the
\* buffers hold and one that is one byte longer.
PRFs == {"unknown", "md1", "md2", "md3", "md80", "md81"}

gcry_md_get_algo_dlen(alg) ==
    CASE alg = "unknown" -> 0
      [] alg = "md1" -> 1
      [] alg = "md2" -> 2
      [] alg = "md3" -> 3
      [] alg = "md80" -> 80
      [] alg = "md81" -> 81

\* The keyed digest: a deterministic function of the key and of the message,
\* sensitive to every byte of both and to their order.
HashMod(x) == x % 32749

RECURSIVE PowMod(_, _)
PowMod(b, n) ==
    IF n = 0 THEN 1
    ELSE LET q == PowMod(b, n \div 2)
             sq == HashMod(q * q)
         IN  IF n % 2 = 1 THEN HashMod(sq * b) ELSE sq

\* the polynomial hash of s[lo .. hi]
RECURSIVE Poly(_, _, _)
Poly(s, lo, hi) ==
    IF lo > hi THEN 0
    ELSE IF lo = hi THEN HashMod(s[lo] + 1)
    ELSE LET mid == (lo + hi) \div 2
         IN  HashMod((Poly(s, lo, mid) * PowMod(31, hi - mid))
                        + Poly(s, mid + 1, hi))

hmac(dlen, key, msg) ==
    LET hk == Poly(key, 1, Len(key))
        hm == HashMod((Poly(msg, 1, Len(msg)) * 7) + (hk * 13)
                         + (Len(key) * 3) + Len(msg))
    IN  [j \in 1..dlen |->
            (((hm + 1) * (j + 2)) + (j * 17) + (hm \div 256)) % 256]

\* ------------------------------------------------ steps of the algorithm
\* the parameter checks, in the order of the code; "" when all pass
CheckParams_SwapCountAndLength(h, cnt, len) ==
    IF h = 0 \/ h > MAX_PRF_BLOCK_LEN THEN PKCS5_INVALID_PRF
    ELSE IF len = Mk(0) THEN PKCS5_INVALID_DERIVED_KEY_LENGTH
    ELSE IF cnt = Mk(0) THEN PKCS5_INVALID_ITERATION_COUNT
    ELSE IF Lt(UINT_MAX, len) THEN PKCS5_DERIVED_KEY_TOO_LONG
    ELSE ""

CheckParams_NoUpperBound(h, cnt, len) ==
    IF h = 0 THEN PKCS5_INVALID_PRF
    ELSE IF cnt = Mk(0) THEN PKCS5_INVALID_ITERATION_COUNT
    ELSE IF len = Mk(0) THEN PKCS5_INVALID_DERIVED_KEY_LENGTH
    ELSE IF Lt(UINT_MAX, len) THEN PKCS5_DERIVED_KEY_TOO_LONG
    ELSE ""

CheckParams(h, cnt, len) ==
    IF h = 0 \/ h > MAX_PRF_BLOCK_LEN THEN PKCS5_INVALID_PRF
    ELSE IF cnt = Mk(0) THEN PKCS5_INVALID_ITERATION_COUNT
    ELSE IF len = Mk(0) THEN PKCS5_INVALID_DERIVED_KEY_LENGTH
    ELSE IF Lt(UINT_MAX, len) THEN PKCS5_DERIVED_KEY_TOO_LONG
    ELSE ""

\* l = dkLen / hLen; if (dkLen % hLen) l++;
BlockCount(len, h) ==
    IF Mod32(len, h) # 0 THEN Inc32(Div32(len, h)) ELSE Div32(len, h)

\* r = dkLen - (l - 1) * hLen;
LastBlockLen(len, cnt, h) == Sub32(len, Mul32(Sub32(cnt, Mk(1)), h))

\* the four bytes stored after the salt: tmp[Slen + k] = (i & mask) >> shift
INT_BigEndian(idx) ==
    << AsChar(Shr32(And32(idx, <<255 * 256, 0>>), 24)),
       AsChar(Shr32(And32(idx, <<255, 0>>), 16)),
       AsChar(Shr32(And32(idx, <<0, 255 * 256>>), 8)),
       AsChar(Shr32(And32(idx, <<0, 255>>), 0)) >>

\* the bytes given to gcry_md_write in iteration iter of block idx
WriteData(salt, idx, iter, prevU, h) ==
    IF iter = Mk(1) THEN salt \o INT_BigEndian(idx) ELSE SubSeq(prevU, 1, h)

\* for (k = 0; k < hLen; k++) T[k] ^= U[k];
XorInto(accT, newU, h) ==
    [k \in 1..Len(accT) |-> IF k <= h THEN BitXor(accT[k], newU[k]) ELSE accT[k]]

\* the loop tests u <= c and (uint)i <= l
IterGuard_OffByOne(iter, cnt) == Lt(iter, cnt)

IterGuard(iter, cnt) == LEq(iter, cnt)

BlockGuard(idx, cnt) == LEq(idx, cnt)

\* the length of the memcpy into DK: (uint)i == l ? r : hLen
CopyLen_AlwaysHLen(idx, cnt, rem, h) == h

CopyLen_AlwaysR(idx, cnt, rem, h) == Val(rem)

CopyLen(idx, cnt, rem, h) == IF idx = cnt THEN Val(rem) ELSE h

\* the offset of the memcpy into DK: (i - 1) * hLen
CopyOffset(idx, h) == Mul32(Sub32(idx, Mk(1)), h)

\* memcpy (DK + (i - 1) * hLen, T, n): DK maps the offsets written so far
\* to the bytes written there
StoreBlock(out, idx, accT, n, h) ==
    LET base == CopyOffset(idx, h)
        new == {AddW(base, Mk(k)) : k \in 0..(n - 1)}
        at(o) == CHOOSE k \in 0..(n - 1) : AddW(base, Mk(k)) = o
    IN  [o \in (DOMAIN out) \cup new |->
            IF o \in new THEN accT[at(o) + 1] ELSE out[o]]

\* ------------------------------------------------------------------ state
VARIABLES
    PRF, P, S, c,   \* the arguments: algorithm, password, salt, iteration count
    reqLen,         \* the length the caller asks for, before its conversion
    dkLen,          \* the parameter dkLen (unsigned int)
    hLen, l, r,     \* digest length, block count, length of the last block
    i, u,           \* block index (int, kept as its bit pattern), iteration
    T, U,           \* the bytes of T and U written so far
    DK,             \* the output buffer: offset written |-> byte
    prf,            \* the keyed-hash context
    pc, ret,        \* position in the function; value returned ("" before)
    lastOp, opTick, \* the last operation on the context; flips at each one
    nRead,          \* number of digests read so far
    failed,         \* the operation that failed, "none" if none did
    hiT, hiU        \* highest index of T and of U touched so far (-1: none)

vars == <<PRF, P, S, c, reqLen, dkLen, hLen, l, r, i, u, T, U, DK, prf, pc,
          ret, lastOp, opTick, nRead, failed, hiT, hiU>>

args == <<PRF, P, S, c, reqLen, dkLen>>

Passwords == {<<>>, <<112, 119>>}
Salts == {<<>>, <<115>>}

NoContext == [open |-> FALSE, key |-> <<>>, buf |-> <<>>]

\* a call: the arguments are chosen, the length is converted to the type of
\* the parameter dkLen, nothing else has happened
InitCall(wraps) ==
    /\ PRF \in PRFs
    /\ P \in Passwords
    /\ S \in Salts
    /\ c \in {Mk(n) : n \in 0..MaxC}
    /\ reqLen \in {<<k * B16, d>> : k \in 0..wraps, d \in 0..MaxDkLen}
    /\ dkLen = AsUInt(reqLen)
    /\ hLen = 0 /\ l = Mk(0) /\ r = Mk(0) /\ i = Mk(0) /\ u = Mk(0)
    /\ T = <<>> /\ U = <<>> /\ DK = <<>>
    /\ prf = NoContext
    /\ pc = "validate" /\ ret = ""
    /\ lastOp = "none" /\ opTick = 0 /\ nRead = Mk(0)
    /\ failed = "none" /\ hiT = -1 /\ hiU = -1

Init == InitCall(0)

\* return rc; from the position the call is at
Return(rc) == pc' = "done" /\ ret' = rc

\* lines 68-111: hLen, the parameter checks, l and r
Validate ==
    /\ pc = "validate"
    /\ LET h == gcry_md_get_algo_dlen(PRF)
           rc == CheckParams(h, c, dkLen)
       IN  /\ hLen' = h
           /\ IF rc # ""
              THEN Return(rc) /\ UNCHANGED <<l, r>>
              ELSE /\ l' = BlockCount(dkLen, h)
                   /\ r' = LastBlockLen(dkLen, BlockCount(dkLen, h), h)
                   /\ pc' = "open"
                   /\ UNCHANGED ret
    /\ UNCHANGED <<args, i, u, T, U, DK, prf, lastOp, opTick, nRead, failed,
                   hiT, hiU>>

\* lines 155-159: gcry_md_open, and i = 1
Open ==
    /\ pc = "open"
    /\ lastOp' = "open" /\ opTick' = 1 - opTick
    /\ \E ok \in BOOLEAN :
          IF ok
          THEN /\ prf' = [open |-> TRUE, key |-> <<>>, buf |-> <<>>]
               /\ i' = Mk(1)
               /\ pc' = "block"
               /\ UNCHANGED <<ret, failed>>
          ELSE /\ Return(PKCS5_INVALID_PRF)
               /\ failed' = "open"
               /\ UNCHANGED <<prf, i>>
    /\ UNCHANGED <<args, hLen, l, r, u, T, U, DK, nRead, hiT, hiU>>

\* lines 159-163: (uint)i <= l holds: memset (T, 0, hLen), and u = 1
BeginBlock ==
    /\ pc = "block"
    /\ BlockGuard(i, l)
    /\ T' = [k \in 1..Max(Len(T), hLen) |-> IF k <= hLen THEN 0 ELSE T[k]]
    /\ hiT' = Max(hiT, hLen - 1)
    /\ u' = Mk(1)
    /\ pc' = "iter"
    /\ UNCHANGED <<args, hLen, l, r, i, U, DK, prf, ret, lastOp, opTick, nRead,
                   failed, hiU>>

\* lines 163-165: u <= c holds: gcry_md_reset
Reset ==
    /\ pc = "iter"
    /\ IterGuard(u, c)
    /\ Lt(nRead, <<B16, MaxOverrun>>)
    /\ prf' = [prf EXCEPT !.buf = <<>>]
    /\ lastOp' = "reset" /\ opTick' = 1 - opTick
    /\ pc' = "setkey"
    /\ UNCHANGED <<args, hLen, l, r, i, u, T, U, DK, ret, nRead, failed, hiT,
                   hiU>>

\* lines 167-169: gcry_md_setkey
SetKey_IgnoreFailure ==
    /\ pc = "setkey"
    /\ lastOp' = "setkey" /\ opTick' = 1 - opTick
    /\ \E ok \in BOOLEAN :
          /\ prf' = [prf EXCEPT !.key = IF ok THEN P ELSE prf.key]
          /\ failed' = IF ok THEN failed ELSE "setkey"
    /\ pc' = "write"
    /\ UNCHANGED <<args, hLen, l, r, i, u, T, U, DK, ret, nRead, hiT, hiU>>

SetKey ==
    /\ pc = "setkey"
    /\ lastOp' = "setkey" /\ opTick' = 1 - opTick
    /\ \E ok \in BOOLEAN :
          IF ok
          THEN /\ prf' = [prf EXCEPT !.key = P]
               /\ pc' = "write"
               /\ UNCHANGED <<ret, failed>>
          ELSE /\ Return(PKCS5_INVALID_PRF)
               /\ failed' = "setkey"
               /\ UNCHANGED prf
    /\ UNCHANGED <<args, hLen, l, r, i, u, T, U, DK, nRead, hiT, hiU>>

\* lines 171-192: the scratch buffer salt || INT (i) when u == 1, else U;
\* gcry_md_write
Write ==
    /\ pc = "write"
    /\ \E ok \in (IF u = Mk(1) THEN BOOLEAN ELSE {TRUE}) :
          IF ok
          THEN /\ prf' = [prf EXCEPT
                            !.buf = @ \o WriteData(S, i, u, U, hLen)]
               /\ hiU' = IF u = Mk(1) THEN hiU ELSE Max(hiU, hLen - 1)
               /\ lastOp' = "write" /\ opTick' = 1 - opTick
               /\ pc' = "read"
               /\ UNCHANGED <<ret, failed>>
          ELSE /\ Return(PKCS5_INVALID_PRF)
               /\ failed' = "alloca"
               /\ UNCHANGED <<prf, hiU, lastOp, opTick>>
    /\ UNCHANGED <<args, hLen, l, r, i, u, T, U, DK, nRead, hiT>>

\* lines 194-202: gcry_md_read, memcpy (U, p, hLen), T ^= U, and u++
Read ==
    /\ pc = "read"
    /\ lastOp' = "read" /\ opTick' = 1 - opTick
    /\ nRead' = AddW(nRead, Mk(1))
    /\ \E ok \in BOOLEAN :
          IF ok
          THEN LET p == hmac(hLen, prf.key, prf.buf)
                   newU == [k \in 1..Max(Len(U), hLen) |->
                               IF k <= hLen THEN p[k] ELSE U[k]]
               IN  /\ U' = newU
                   /\ T' = XorInto(T, newU, hLen)
                   /\ hiU' = Max(hiU, hLen - 1)
                   /\ hiT' = Max(hiT, hLen - 1)
                   /\ u' = Inc32(u)
                   /\ pc' = "iter"
                   /\ UNCHANGED <<ret, failed>>
          ELSE /\ Return(PKCS5_INVALID_PRF)
               /\ failed' = "read"
               /\ UNCHANGED <<U, T, hiU, hiT, u>>
    /\ UNCHANGED <<args, hLen, l, r, i, DK, prf>>

\* i++ on an int: at INT_MAX the behaviour is undefined; the value wraps to
\* INT_MIN, or the program is stopped where overflow traps
IncInt(idx) ==
    IF idx = INT_MAX
    THEN {[i |-> INT_MIN, pc |-> "block"], [i |-> idx, pc |-> "trap"]}
    ELSE {[i |-> Inc32(idx), pc |-> "block"]}

\* lines 163, 204, 159: u <= c fails: memcpy of the block into DK, and i++
CopyBlock ==
    /\ pc = "iter"
    /\ ~IterGuard(u, c)
    /\ LET n == CopyLen(i, l, r, hLen)
       IN  /\ DK' = StoreBlock(DK, i, T, n, hLen)
           /\ hiT' = Max(hiT, n - 1)
    /\ \E o \in IncInt(i) : i' = o.i /\ pc' = o.pc
    /\ UNCHANGED <<args, hLen, l, r, u, T, U, prf, ret, lastOp, opTick, nRead,
                   failed, hiU>>

\* lines 159, 207-209: (uint)i <= l fails: gcry_md_close, return PKCS5_OK
Close ==
    /\ pc = "block"
    /\ ~BlockGuard(i, l)
    /\ prf' = [prf EXCEPT !.open = FALSE]
    /\ lastOp' = "close" /\ opTick' = 1 - opTick
    /\ Return(PKCS5_OK)
    /\ UNCHANGED <<args, hLen, l, r, i, u, T, U, DK, nRead, failed, hiT, hiU>>

Next ==
    \/ Validate
    \/ Open
    \/ BeginBlock
    \/ Reset
    \/ SetKey
    \/ Write
    \/ Read
    \/ CopyBlock
    \/ Close

Spec == Init /\ [][Next]_vars

\* The state of a call with c = UINT_MAX after u - 1 iterations of its only
\* block, for u = UINT_MAX - 1 and u = UINT_MAX.  The counters are those the
\* iterations before have left (LoopShape); the bytes those iterations have
\* left in T, in U and in the context are not computed: any bytes stand for
\* them.
Bytes1 == {<<0>>, <<255>>}

MidLoop ==
    /\ PRF = "md1"
    /\ P \in Passwords
    /\ S \in Salts
    /\ c = UINT_MAX
    /\ reqLen = Mk(1) /\ dkLen = Mk(1)
    /\ hLen = 1 /\ l = Mk(1) /\ r = Mk(1) /\ i = Mk(1)
    /\ u \in {Sub32(UINT_MAX, Mk(1)), UINT_MAX}
    /\ T \in Bytes1 /\ U \in Bytes1 /\ DK = <<>>
    /\ \E b \in Bytes1 : prf = [open |-> TRUE, key |-> P, buf |-> b]
    /\ pc = "iter" /\ ret = ""
    /\ lastOp = "read" /\ opTick = 1 /\ nRead = Sub32(u, Mk(1))
    /\ failed = "none" /\ hiT = 0 /\ hiU = 0

InitWide == InitCall(MaxWraps) \/ MidLoop

\* calls whose requested length exceeds the range of unsigned int, and calls
\* with the largest iteration count
SpecWide == InitWide /\ [][Next]_vars

\* a * b for pairs of which one is below 2^15
Product(a, b) ==
    IF a[1] = 0 /\ a[2] < (B16 \div 2) THEN MulW(b, a[2]) ELSE MulW(a, Val(b))

\* ------------------------------------- the function as a whole (no failure)
\* lines 163-202: the iterations iter .. cnt of block idx
RECURSIVE IterLoop(_, _, _, _, _, _, _, _)
IterLoop(h, key, salt, cnt, idx, iter, accT, prevU) ==
    IF ~IterGuard(iter, cnt) THEN accT
    ELSE LET newU == hmac(h, key, WriteData(salt, idx, iter, prevU, h))
         IN  IterLoop(h, key, salt, cnt, idx, Inc32(iter),
                      XorInto(accT, newU, h), newU)

\* lines 159-205: the blocks idx .. blocks
RECURSIVE BlockLoop(_, _, _, _, _, _, _, _)
BlockLoop(h, key, salt, cnt, blocks, rem, idx, out) ==
    IF ~BlockGuard(idx, blocks) THEN out
    ELSE LET accT == IterLoop(h, key, salt, cnt, idx, Mk(1),
                              [k \in 1..h |-> 0], <<>>)
         IN  BlockLoop(h, key, salt, cnt, blocks, rem, Inc32(idx),
                       StoreBlock(out, idx, accT,
                                  CopyLen(idx, blocks, rem, h), h))

\* lines 56-210 when no operation of the context fails
pbkdf2(alg, key, salt, cnt, len) ==
    LET h == gcry_md_get_algo_dlen(alg)
        rc == CheckParams(h, cnt, len)
    IN  IF rc # "" THEN [ret |-> rc, DK |-> <<>>]
        ELSE [ret |-> PKCS5_OK,
              DK |-> BlockLoop(h, key, salt, cnt, BlockCount(len, h),
                               LastBlockLen(len, BlockCount(len, h), h),
                               Mk(1), <<>>)]

\* ------------------------------------------------------------ properties
Min(a, b) == IF a <= b THEN a ELSE b

\* the pairs of the offsets 0 .. n - 1
Offsets(n) == {Mk(k) : k \in 0..(n - 1)}

LoopPcs == {"block", "iter", "setkey", "write", "read"}

ValidArgs ==
    /\ gcry_md_get_algo_dlen(PRF) \in 1..MAX_PRF_BLOCK_LEN
    /\ c # Mk(0)
    /\ dkLen # Mk(0)

TypeOK ==
    /\ pc \in {"validate", "open", "done", "trap"} \cup LoopPcs
    /\ ret \in {"", PKCS5_OK, PKCS5_INVALID_PRF, PKCS5_INVALID_ITERATION_COUNT,
                PKCS5_INVALID_DERIVED_KEY_LENGTH, PKCS5_DERIVED_KEY_TOO_LONG}
    /\ failed \in {"none", "open", "setkey", "alloca", "read"}
    /\ opTick \in {0, 1}
    /\ hiT \in -1..MAX_PRF_BLOCK_LEN /\ hiU \in -1..MAX_PRF_BLOCK_LEN
    /\ (pc = "done") = (ret # "")

\* What u - 1 iterations leave behind (u >= 2): the state MidLoop starts
\* from has this shape.
LoopShape ==
    (pc = "iter" /\ Lt(Mk(1), u)) =>
        /\ nRead = AddW(Product(Sub32(i, Mk(1)), c), Sub32(u, Mk(1)))
        /\ lastOp = "read" /\ opTick = 1
        /\ prf.open /\ prf.key = P
        /\ Len(prf.buf) = (IF u = Mk(2) THEN Len(S) + 4 ELSE hLen)
        /\ Len(T) = hLen /\ Len(U) = hLen
        /\ hiT = hLen - 1 /\ hiU = hLen - 1
        /\ ret = "" /\ failed = "none"
        /\ (i = Mk(1) => DK = <<>>)
        /\ l = BlockCount(dkLen, hLen) /\ r = LastBlockLen(dkLen, l, hLen)

\* the step machine and the function as a whole agree
MachineMatchesFunction ==
    (pc = "done" /\ failed = "none") =>
        LET o == pbkdf2(PRF, P, S, c, dkLen)
        IN  ret = o.ret /\ DK = o.DK

\* PBKDF2 as PKCS#5 defines it, for a block index n and counts below 2^15
RefINT(n) ==
    << (n \div (256 * B16)) % 256, (n \div B16) % 256, (n \div 256) % 256,
       n % 256 >>

RECURSIVE RefU(_, _, _, _, _)
RefU(h, key, salt, n, k) ==
    IF k = 1 THEN hmac(h, key, salt \o RefINT(n))
    ELSE hmac(h, key, RefU(h, key, salt, n, k - 1))

RECURSIVE RefF(_, _, _, _, _)
RefF(h, key, salt, n, k) ==
    IF k = 1 THEN RefU(h, key, salt, n, 1)
    ELSE LET a == RefF(h, key, salt, n, k - 1)
             b == RefU(h, key, salt, n, k)
         IN  [j \in 1..h |-> BitXor(a[j], b[j])]

\* byte o (from 0) of T_1 || T_2 || ...
RefByte(h, key, salt, cnt, o) == RefF(h, key, salt, (o \div h) + 1, cnt)[(o % h) + 1]

\* The derived key of a call that returns: the bytes of the definition at
\* the offsets 0 .. dkLen - 1
OutputMatchesDefinition ==
    (pc = "done" /\ ret = PKCS5_OK) =>
        /\ DOMAIN DK = Offsets(Val(dkLen))
        /\ \A o \in 0..(Val(dkLen) - 1) :
              DK[Mk(o)] = RefByte(hLen, P, S, Val(c), o)

\* C1: in every terminal state of a call the keyed-hash context opened for
\* the call has been closed
C1_ContextReleased == (pc = "done") => ~prf.open

\* C2: the parameter checks are made in the order PRF, iteration count,
\* length, each with its own error; with several parameters invalid the
\* error is that of the first failing check
C2_ValidationOrder ==
    (pc = "done") =>
        LET h == gcry_md_get_algo_dlen(PRF)
        IN  /\ (h = 0 \/ h > MAX_PRF_BLOCK_LEN) => ret = PKCS5_INVALID_PRF
            /\ (h \in 1..MAX_PRF_BLOCK_LEN /\ c = Mk(0))
                  => ret = PKCS5_INVALID_ITERATION_COUNT
            /\ (h \in 1..MAX_PRF_BLOCK_LEN /\ c # Mk(0) /\ dkLen = Mk(0))
                  => ret = PKCS5_INVALID_DERIVED_KEY_LENGTH

C2_Witness ==
    /\ pc = "done"
    /\ gcry_md_get_algo_dlen(PRF) \in 1..MAX_PRF_BLOCK_LEN
    /\ c = Mk(0) /\ dkLen = Mk(0)
    /\ ret = PKCS5_INVALID_ITERATION_COUNT

\* C3: with a valid PRF, an iteration count >= 1 and a requested length >= 1,
\* the call returns DerivedKeyTooLong exactly when the requested length
\* exceeds (2^32 - 1) * hLen, and accepts every length up to that
C3_TooLongIff ==
    (pc = "done" /\ hLen \in 1..MAX_PRF_BLOCK_LEN /\ c # Mk(0)
        /\ reqLen # Mk(0) /\ failed = "none") =>
        IF Lt(MulW(UINT_MAX, hLen), reqLen)
        THEN ret = PKCS5_DERIVED_KEY_TOO_LONG
        ELSE ret = PKCS5_OK

\* C4: a call with valid arguments in which nothing fails returns Ok with the
\* first dkLen bytes of T_1 || ... || T_l, where T_i is the exclusive or of
\* exactly the c iterates U_1 .. U_c: once c iterates of block i are folded
\* into T the block is complete
C4_DerivedKey ==
    /\ (pc = "done" /\ ValidArgs /\ failed = "none") =>
          /\ ret = PKCS5_OK
          /\ DOMAIN DK = Offsets(Val(dkLen))
          /\ \A o \in 0..(Val(dkLen) - 1) :
                DK[Mk(o)] = RefByte(hLen, P, S, Val(c), o)
    /\ (pc = "iter" /\ failed = "none" /\ nRead = Product(i, c)) => Lt(c, u)

\* C5: the call makes at most l * c digests: both loops end
C5_InvocationBound == (pc # "validate") => LEq(nRead, Product(l, c))

\* C6: the output is written at the offsets 0 .. dkLen - 1 and at no other,
\* block by block from the left: while block i is computed exactly the
\* offsets below (i - 1) * hLen are written; the last block has
\* r = dkLen - (l - 1) * hLen bytes, 1 <= r <= hLen
C6_OutputOffsets ==
    /\ DOMAIN DK \subseteq Offsets(Val(dkLen))
    /\ (pc \in LoopPcs) =>
          DOMAIN DK = Offsets(Min((Val(i) - 1) * hLen, Val(dkLen)))
    /\ (pc = "done" /\ ret = PKCS5_OK) =>
          /\ DOMAIN DK = Offsets(Val(dkLen))
          /\ Val(r) \in 1..hLen
          /\ Val(r) = Val(dkLen) - ((Val(l) - 1) * hLen)

C6_Witness ==
    /\ pc = "done" /\ ret = PKCS5_OK
    /\ Val(l) >= 2 /\ Val(r) < hLen
    /\ DOMAIN DK = Offsets(Val(dkLen))

\* C7: the output for a shorter valid length, all else equal, is the prefix
\* of that length of the output of this call
C7_LengthPrefix ==
    (pc = "done" /\ ret = PKCS5_OK) =>
        \A d \in 1..(Val(dkLen) - 1) :
            LET o == pbkdf2(PRF, P, S, c, Mk(d))
            IN  /\ o.ret = PKCS5_OK
                /\ DOMAIN o.DK = Offsets(d)
                /\ \A k \in Offsets(d) : k \in DOMAIN DK /\ DK[k] = o.DK[k]

C7_Witness ==
    /\ pc = "done" /\ ret = PKCS5_OK
    /\ hLen = 2 /\ Val(dkLen) = MaxDkLen /\ Val(c) >= 2

\* C8: T and U are touched only after hLen is found to be in 1 .. 80, and
\* only at indexes below hLen; a PRF of another length is rejected with
\* InvalidPRF with neither buffer touched
C8_BuffersInBounds ==
    /\ hiT < MAX_PRF_BLOCK_LEN /\ hiU < MAX_PRF_BLOCK_LEN
    /\ (hiT >= 0 \/ hiU >= 0) =>
          /\ hLen \in 1..MAX_PRF_BLOCK_LEN
          /\ hiT < hLen /\ hiU < hLen
    /\ (pc # "validate" /\ hLen \notin 1..MAX_PRF_BLOCK_LEN) =>
          /\ pc = "done" /\ ret = PKCS5_INVALID_PRF
          /\ hiT = -1 /\ hiU = -1

C8_Witness ==
    /\ hLen = MAX_PRF_BLOCK_LEN
    /\ hiT = MAX_PRF_BLOCK_LEN - 1 /\ hiU = MAX_PRF_BLOCK_LEN - 1
    /\ pc = "done" /\ ret = PKCS5_OK

\* the operations of the context that may fail
PRFFailures == {"open", "setkey", "read"}

NothingAfterFailure ==
    (failed \in PRFFailures) =>
        (/\ lastOp' = lastOp /\ opTick' = opTick /\ nRead' = nRead
         /\ DK' = DK /\ ret' = ret /\ pc' = pc)

\* C9: once open, setKey or finalizeAndRead has failed the call has returned
\* InvalidPRF, and nothing happens after: no operation on the context, no
\* write to the output, no other result
C9_FailureIsFinal ==
    /\ [](failed \in PRFFailures => (pc = "done" /\ ret = PKCS5_INVALID_PRF))
    /\ [][NothingAfterFailure]_vars

C9_Witness ==
    /\ failed = "read" /\ pc = "done" /\ ret = PKCS5_INVALID_PRF
    /\ Val(i) >= 2 /\ DK # <<>>

\* the operations that may follow one another on the context
ProtocolOrder ==
    { <<"none", "open">>, <<"open", "reset">>, <<"reset", "setkey">>,
      <<"setkey", "write">>, <<"write", "read">>, <<"read", "reset">>,
      <<"read", "close">> }

ProtocolState ==
    /\ (~ValidArgs) => (lastOp = "none" /\ ~prf.open /\ nRead = Mk(0))
    /\ (pc = "validate") => (lastOp = "none")
    /\ (lastOp = "close") => (pc = "done" /\ ~prf.open)
    /\ (pc \in LoopPcs \ {"block"}) =>
          (/\ LEq(Mk(1), u) /\ LEq(u, Inc32(c))
           /\ LEq(Mk(1), i) /\ LEq(i, l))
    /\ (pc = "done" /\ ret = PKCS5_OK) =>
          (lastOp = "close" /\ nRead = Product(l, c))

ProtocolStep ==
    /\ (opTick' # opTick) => (<<lastOp, lastOp'>> \in ProtocolOrder)
    /\ (lastOp' # lastOp \/ nRead' # nRead \/ prf' # prf) => (opTick' # opTick)
    /\ (u' # u) =>
          (u' = Mk(1) \/ (u' = Inc32(u) /\ nRead' = AddW(nRead, Mk(1))))
    /\ (i' # i) => (i' = Inc32(i) /\ (i = Mk(0) \/ Lt(c, u)))

\* C10: no operation on the context before the parameters are found valid;
\* then open, and per iteration reset, setKey, one write, finalizeAndRead;
\* u runs 1 .. c within a block and i runs 1 .. l; a call that returns Ok has
\* read l * c digests and has closed the context last
C10_ProtocolOrder == []ProtocolState /\ [][ProtocolStep]_vars

C10_Witness ==
    /\ pc = "done" /\ ret = PKCS5_OK /\ lastOp = "close"
    /\ Val(l) >= 2 /\ Val(c) >= 2
    /\ nRead = Product(l, c)

====
